---- MODULE Spec2Model ----
(***************************************************************************)
(* A model of the download task orchestrator of app.py:                    *)
(*   - yt_extract_info, the extraction attempt chain (specification        *)
(*     SpecExtract): one action per strategy, the credential files on      *)
(*     disk, the audit trail and the calls of run_ydl_extract;             *)
(*   - the task record of one download request with its worker thread,     *)
(*     the progress hook the worker's transfer calls, and the stall        *)
(*     monitor thread (specification Spec): one action per access to the   *)
(*     shared record, so that every interleaving of the two threads that   *)
(*     the interpreter allows is a behaviour; the same under fair          *)
(*     scheduling of the two threads (specification SpecFair);             *)
(*   - download_route from the request to the start of the threads         *)
(*     (specification SpecRoute): the chain it calls, the resolution of    *)
(*     the requested format, then the worker;                              *)
(*   - task_status, the reader of the record, next to the worker           *)
(*     (specification SpecStatus) and next to add_task_message             *)
(*     (specification SpecLog);                                            *)
(*   - remux_or_encode with the files of DOWNLOAD_DIR and the ffmpeg       *)
(*     invocations (specification SpecRemux), is_quicktime_compatible on   *)
(*     codec names (specification SpecCompat) and choose_best_container    *)
(*     (specification SpecContainer).                                      *)
(* The threads take no lock on the record (TASK_LOCK is held for the       *)
(* insert of app.py:693-694 only); one dict.update is one step.            *)
(* The variables of the parts a specification does not run stay at rest.   *)
(* The messages list is written in SpecLog only, where every caller of     *)
(* add_task_message is a call of it.  An unlink inside remux_or_encode may *)
(* raise; failures of tempfile.NamedTemporaryFile are not in this model.   *)
(***************************************************************************)
EXTENDS Integers, Sequences, FiniteSets, TLC

VARIABLES
    \* ---- module-level state of app.py
    BROWSER_COOKIE3_AVAILABLE, \* app.py:20-24, fixed at import
    files,                     \* the credential files that exist on disk
    \* ---- yt_extract_info(url, cookiefile, try_browser_cookies)
    x_pc,                      \* the strategy yt_extract_info is about to try
    cookiefile,                \* parameter: the caller's credential file or None
    try_browser_cookies,       \* parameter
    env,                       \* the process environment make_cookiefile_from_env reads
    created_env_cookie,        \* local of yt_extract_info
    attempts,                  \* local: the audit trail
    calls,                     \* the run_ydl_extract calls made, in order
    result,                    \* the returned dict, None before the return
    \* ---- the clock, time.time() in seconds
    now,
    \* ---- TASKS[task_id], the task record of one download request
    status, progress, speed, last_progress_time, created,
    filename, info, error, last_error,
    \* ---- worker(tid, u, cookiefile, try_browser_flag, fmt_str, ...)
    w_pc,                      \* the worker thread's position
    w_cookiefile,              \* parameter `cookiefile`: a credential file or None
    fmt_str,                   \* parameter: the resolved format or None
    try_browser_flag,          \* parameter
    cur,                       \* the rung of the ladder being attempted
    w_err,                     \* str(e) of the exception being handled
    final_path,                \* local of attempt_download
    downloads,                 \* the transfer calls made, in order
    events,                    \* progress events delivered in this transfer
    fin,                       \* a "finished" event was delivered in this transfer
    hook_d,                    \* parameter `d` of the last progress_hook call
    \* ---- monitor()
    m_pc,                      \* the monitor thread's position
    m_status,                  \* local `status`
    m_last,                    \* local `last`
    \* ---- is_quicktime_compatible(codecs)
    c_pc,                      \* "call" before the call, "returned" after it
    codecs,                    \* parameter: what ffprobe_codecs returned
    compatible,                \* the returned value
    \* ---- choose_best_container(info)
    k_pc,                      \* "call" before the call, "returned" after it
    k_info,                    \* parameter: the vcodec and acodec of the metadata
    container,                 \* the returned extension
    \* ---- remux_or_encode(task_id, src_path, desired_ext, reencode_on_fail)
    r_pc,                      \* the statement remux_or_encode is about to run
    src_ext,                   \* src_path.suffix without its dot
    desired_ext,               \* parameter
    reencode_on_fail,          \* parameter
    src_codecs,                \* the streams of the file at src_path
    dir,                       \* the files that exist in DOWNLOAD_DIR
    r_codecs,                  \* local `codecs`: the last probe result
    outname,                   \* local: the remux output path
    enc_out,                   \* local: the transcode output path
    ret,                       \* the returned path
    ffmpeg,                    \* the ffmpeg invocations made, in order
    r_return,                  \* which return statement was taken
    unlink_refused,            \* an unlink() of this call raised
    \* ---- download_route()
    d_pc,                      \* the statement download_route is about to run
    requested,                 \* request parameter "requested", None if absent
    upload,                    \* the request carries a "cookies" file
    formats,                   \* info["formats"] of the extracted metadata
    audio_convert,             \* local, the worker's parameter audio_conv
    \* ---- the messages of the task record and task_status(task_id)
    messages,                  \* TASKS[task_id]["messages"]
    s_pc,                      \* the statement task_status is about to run
    msgs,                      \* local `msgs` of task_status
    resp                       \* the task dict of the last task_status response

xvars == <<x_pc, cookiefile, try_browser_cookies, env, created_env_cookie,
           attempts, calls, result>>

rvars == <<status, progress, speed, last_progress_time, created,
           filename, info, error, last_error>>

wvars == <<w_pc, w_cookiefile, fmt_str, try_browser_flag, cur, w_err, final_path, downloads,
           events, fin, hook_d>>

mvars == <<m_pc, m_status, m_last>>

tvars == <<now, rvars, wvars, mvars>>

cvars == <<c_pc, codecs, compatible, k_pc, k_info, container>>

\* The state of the functions that are called on their own
qvars == <<r_pc, src_ext, desired_ext, reencode_on_fail, src_codecs, dir,
           r_codecs, outname, enc_out, ret, ffmpeg, r_return, unlink_refused>>

dvars == <<d_pc, requested, upload, formats, audio_convert>>

lvars == <<messages, s_pc, msgs, resp>>

ovars == <<cvars, qvars, dvars, lvars>>

vars == <<BROWSER_COOKIE3_AVAILABLE, files, xvars, tvars, ovars>>

None == "None"

\* An absent timestamp (the key is not in the record, the local is not set)
NoTime == 0 - 1

(***************************************************************************)
(* Codec names and is_quicktime_compatible                                 *)
(***************************************************************************)

\* A Python str is the sequence of its characters, so that `x in s` and
\* s.lower() are computed and not assumed.  NoneStr is Python's None where
\* a str is expected; it is no str, its one element is no character.
NoneStr == <<None>>

s_empty == <<>>
s_h264 == <<"h", "2", "6", "4">>
s_H264 == <<"H", "2", "6", "4">>
s_avc1 == <<"a", "v", "c", "1">>
s_hevc == <<"h", "e", "v", "c">>
s_vp8 == <<"v", "p", "8">>
s_vp9 == <<"v", "p", "9">>
s_av1 == <<"a", "v", "1">>
s_mpeg4 == <<"m", "p", "e", "g", "4">>
s_aac == <<"a", "a", "c">>
s_AAC == <<"A", "A", "C">>
s_aac_latm == <<"a", "a", "c", "_", "l", "a", "t", "m">>
s_mp4a == <<"m", "p", "4", "a">>
s_mp3 == <<"m", "p", "3">>
s_opus == <<"o", "p", "u", "s">>
s_vorbis == <<"v", "o", "r", "b", "i", "s">>
s_flac == <<"f", "l", "a", "c">>
s_ac3 == <<"a", "c", "3">>
s_none == <<"n", "o", "n", "e">>
s_h_264 == <<"h", ".", "2", "6", "4">>
s_OPUS == <<"O", "P", "U", "S">>
s_VP9 == <<"V", "P", "9">>

\* str.lower(), on the letters that occur in the names above
LowerChar(c) ==
    CASE c = "A" -> "a"
      [] c = "C" -> "c"
      [] c = "H" -> "h"
      [] c = "O" -> "o"
      [] c = "P" -> "p"
      [] c = "S" -> "s"
      [] c = "U" -> "u"
      [] c = "V" -> "v"
      [] OTHER -> c

Lower(s) == [i \in 1..Len(s) |-> LowerChar(s[i])]

\* `sub in s` of two Python strs
Contains(sub, s) ==
    \E i \in 0..(Len(s) - Len(sub)) : SubSeq(s, i + 1, i + Len(sub)) = sub

\* `x or ""` where x is a str or None
StrOrEmpty(x) == IF x = NoneStr \/ x = s_empty THEN s_empty ELSE x

\* What ffprobe_codecs returns: {"video": ..., "audio": ...}, or None when
\* the probe itself raised
NoProbe == [probe |-> FALSE]

ProbeResult(v, a) == [probe |-> TRUE, video |-> v, audio |-> a]

is_quicktime_compatible_AnyAudio(c) ==
    IF ~c.probe THEN FALSE
    ELSE LET v == Lower(StrOrEmpty(c.video))
             a == Lower(StrOrEmpty(c.audio))
         IN  IF v = s_empty
             THEN Contains(s_aac, a) \/ Contains(s_mp3, a) \/ Contains(s_mp4a, a)
             ELSE Contains(s_h264, v) \/ Contains(s_avc1, v)
                    \/ Contains(<<"a", "v", "c">>, v)

is_quicktime_compatible(c) ==
    IF ~c.probe THEN FALSE
    ELSE LET v == Lower(StrOrEmpty(c.video))
             a == Lower(StrOrEmpty(c.audio))
         IN  IF v = s_empty
             THEN Contains(s_aac, a) \/ Contains(s_mp3, a) \/ Contains(s_mp4a, a)
             ELSE IF Contains(s_h264, v) \/ Contains(s_avc1, v)
                       \/ Contains(<<"a", "v", "c">>, v)
                  THEN IF a = s_empty THEN TRUE
                       ELSE Contains(s_aac, a) \/ Contains(s_mp3, a)
                              \/ Contains(s_mp4a, a)
                  ELSE FALSE

\* The codec names the calls are made with
VideoNames == {NoneStr, s_empty, s_h264, s_H264, s_avc1, s_hevc, s_vp8, s_vp9,
               s_av1, s_mpeg4}

AudioNames == {NoneStr, s_empty, s_aac, s_AAC, s_aac_latm, s_mp4a, s_mp3,
               s_opus, s_vorbis, s_flac, s_ac3}

\* The function is not being called
\* The metadata choose_best_container reads: info["vcodec"], info["acodec"]
Info(v, a) == [vcodec |-> v, acodec |-> a]

\* choose_best_container without the opus exception for H.264 video
choose_best_container_NoOpusException(inf) ==
    LET vcodec == Lower(StrOrEmpty(inf.vcodec))
        acodec == Lower(StrOrEmpty(inf.acodec))
    IN  IF vcodec \in {s_none, s_empty} /\ acodec # s_empty
        THEN IF Contains(s_opus, acodec) THEN "webm"
             ELSE IF Contains(s_flac, acodec) THEN "flac"
             ELSE IF Contains(s_mp3, acodec) THEN "mp3"
             ELSE "m4a"
        ELSE IF Contains(<<"a", "v", "c">>, vcodec) \/ Contains(s_h264, vcodec)
                  \/ Contains(s_h_264, vcodec)
             THEN "mp4"
        ELSE IF Contains(s_vp9, vcodec) \/ Contains(s_vp8, vcodec) THEN "webm"
        ELSE IF Contains(s_av1, vcodec) THEN "webm"
        ELSE "mp4"

\* app.py:127-148
choose_best_container(inf) ==
    LET vcodec == Lower(StrOrEmpty(inf.vcodec))
        acodec == Lower(StrOrEmpty(inf.acodec))
    IN  IF vcodec \in {s_none, s_empty} /\ acodec # s_empty
        THEN IF Contains(s_opus, acodec) THEN "webm"
             ELSE IF Contains(s_flac, acodec) THEN "flac"
             ELSE IF Contains(s_mp3, acodec) THEN "mp3"
             ELSE IF Contains(s_aac, acodec) \/ Contains(s_mp4a, acodec) THEN "m4a"
             ELSE "m4a"
        ELSE IF Contains(<<"a", "v", "c">>, vcodec) \/ Contains(s_h264, vcodec)
                  \/ Contains(s_h_264, vcodec)
             THEN IF Contains(s_opus, acodec) THEN "webm" ELSE "mp4"
        ELSE IF Contains(s_vp9, vcodec) \/ Contains(s_vp8, vcodec) THEN "webm"
        ELSE IF Contains(s_av1, vcodec) THEN "webm"
        ELSE "mp4"

\* The codec names of the metadata the calls are made with; "none" is how
\* the metadata names a stream that is not there
InfoVideoNames == VideoNames \cup {s_none, s_h_264, s_VP9}

InfoAudioNames == AudioNames \cup {s_none, s_OPUS}

\* The two functions are not being called
CompatIdle ==
    /\ c_pc = "idle" /\ codecs = NoProbe /\ compatible = FALSE
    /\ k_pc = "idle" /\ k_info = Info(NoneStr, NoneStr) /\ container = None

(***************************************************************************)
(* remux_or_encode: the files of DOWNLOAD_DIR                              *)
(***************************************************************************)

\* DOWNLOAD_DIR / f"{base}.{ext}" is FileName(0, ext) and
\* DOWNLOAD_DIR / f"{base}-{i}.{ext}" is FileName(i, ext), for the one base
\* (src_path.stem) of the call.
FileName(i, ext) == [i |-> i, ext |-> ext]

\* No path (a local that is not assigned yet)
NoFile == [i |-> 0 - 1, ext |-> None]

\* src_path
SrcPath == FileName(0, src_ext)

\* str.lower() on the extensions of the model
ExtLower(e) == IF e = "MP4" THEN "mp4" ELSE e

\* FreeName without the loop: the first candidate, free or not
FreeName_NoLoop(ext, d) == FileName(0, ext)

\* The loop `while outname.exists(): outname = ...-{i}...; i += 1`: the
\* first free name among base.ext, base-1.ext, base-2.ext, ...
FreeName(ext, d) ==
    LET free(i) == FileName(i, ext) \notin d
    IN  FileName(CHOOSE i \in 0..Cardinality(d) :
                     free(i) /\ \A j \in 0..(i - 1) : ~free(j),
                 ext)

\* What run_subprocess returns as rc: the exit status, 124 on
\* TimeoutExpired, 1 on any other exception
ExitCodes == {0, 1, 124}

\* What ffprobe_codecs can return for a file with streams c: its codecs,
\* no codec at all (ffprobe failed or is missing), or None (it raised)
Probes(c) == {c, ProbeResult(NoneStr, NoneStr), NoProbe}

\* The streams a downloaded file can have
SourceCodecs == {ProbeResult(s_h264, s_aac), ProbeResult(s_vp9, s_opus),
                 ProbeResult(s_h264, s_opus), ProbeResult(NoneStr, s_opus)}

\* The function is not being called
RemuxIdle ==
    /\ r_pc = "idle" /\ src_ext = None /\ desired_ext = None
    /\ reencode_on_fail = FALSE /\ src_codecs = NoProbe /\ dir = {}
    /\ r_codecs = NoProbe
    /\ outname = NoFile /\ enc_out = NoFile /\ ret = NoFile
    /\ ffmpeg = <<>> /\ r_return = None /\ unlink_refused = FALSE

\* download_route is not being run
RouteIdle ==
    /\ d_pc = "idle" /\ requested = None /\ upload = FALSE
    /\ formats = <<>> /\ audio_convert = None

\* No response of task_status yet
NoResp == [none |-> TRUE]

\* The log is empty (app.py:694) and task_status has not been called
LogIdle == messages = <<>> /\ s_pc = "idle" /\ msgs = <<>> /\ resp = NoResp

OthersIdle == CompatIdle /\ RemuxIdle /\ RouteIdle /\ LogIdle

(***************************************************************************)
(* The extraction attempt chain                                            *)
(***************************************************************************)

\* str(e) of a failed extraction; Python's str(e) may be the empty string.
ErrVals == {"", "e1", "e2"}

\* What run_ydl_extract returns: {"ok": True, "info": info} or
\* {"ok": False, "error": str(e)}.
Outcomes ==
    {[ok |-> TRUE, info |-> "info", error |-> None]}
        \cup {[ok |-> FALSE, info |-> None, error |-> e] : e \in ErrVals}

\* The environment, by what make_cookiefile_from_env finds in it:
\*   unset          none of the three variables is set
\*   file_netscape  YTDLP_COOKIES_FILE names an existing Netscape file
\*   file_json      YTDLP_COOKIES_FILE names an existing JSON export
\*   file_unusable  YTDLP_COOKIES_FILE names an existing file that is neither
\*   raw            YTDLP_COOKIES_B64 or YTDLP_COOKIES holds the content
EnvModes == {"unset", "file_netscape", "file_json", "file_unusable", "raw"}

\* The temporary files of the chain
TempFiles == {"env_tmp", "browser_tmp"}

\* The path make_cookiefile_from_env returns for an environment
make_cookiefile_from_env(e) ==
    CASE e = "file_netscape" -> "env_file"
      [] e = "file_json"     -> "env_tmp"
      [] e = "raw"           -> "env_tmp"
      [] OTHER               -> None

\* Python's `a or b` on strings/None
PyOr(a, b) == IF a \notin {"", None} THEN a ELSE b

\* The strategies in the order of the code
Strategies ==
    <<"no_cookies", "user_cookiefile", "env_cookiefile", "browser_cookiefile",
      "allow_unplayable">>

\* run_ydl_extract with the given options returning r, then attempts.append
Attempt(name, cf, relaxed, r) ==
    /\ calls' = Append(calls, [cookiefile |-> cf, allow_unplayable |-> relaxed])
    /\ attempts' = Append(attempts, [name |-> name, r |-> r])

\* return {"info": r["info"], "attempts": attempts}
ReturnInfo(r) ==
    /\ result' = [keys |-> {"info", "attempts"}, info |-> r.info, error |-> None]
    /\ x_pc' = "returned"

\* TryNoCookies with the success return taken before attempts.append
TryNoCookies_ReturnBeforeAppend ==
    /\ x_pc = "no_cookies"
    /\ \E r \in Outcomes :
        /\ calls' = Append(calls, [cookiefile |-> None, allow_unplayable |-> FALSE])
        /\ IF r.ok
           THEN /\ ReturnInfo(r)
                /\ UNCHANGED attempts
           ELSE /\ attempts' = Append(attempts, [name |-> "no_cookies", r |-> r])
                /\ x_pc' = "user_cookiefile"
                /\ UNCHANGED result
    /\ UNCHANGED <<tvars, ovars>>
    /\ UNCHANGED <<BROWSER_COOKIE3_AVAILABLE, files, cookiefile,
                   try_browser_cookies, env, created_env_cookie>>

\* app.py:469-474
TryNoCookies ==
    /\ x_pc = "no_cookies"
    /\ \E r \in Outcomes :
        /\ Attempt("no_cookies", None, FALSE, r)
        /\ IF r.ok THEN ReturnInfo(r)
           ELSE /\ x_pc' = "user_cookiefile"
                /\ UNCHANGED result
    /\ UNCHANGED <<tvars, ovars>>
    /\ UNCHANGED <<BROWSER_COOKIE3_AVAILABLE, files, cookiefile,
                   try_browser_cookies, env, created_env_cookie>>

\* TryUserCookiefile without the return on success
TryUserCookiefile_NoStop ==
    /\ x_pc = "user_cookiefile"
    /\ IF cookiefile # None
       THEN \E r \in Outcomes : Attempt("user_cookiefile", cookiefile, FALSE, r)
       ELSE UNCHANGED <<attempts, calls>>
    /\ x_pc' = "env_cookiefile"
    /\ UNCHANGED result
    /\ UNCHANGED <<tvars, ovars>>
    /\ UNCHANGED <<BROWSER_COOKIE3_AVAILABLE, files, cookiefile,
                   try_browser_cookies, env, created_env_cookie>>

\* app.py:476-483
TryUserCookiefile ==
    /\ x_pc = "user_cookiefile"
    /\ IF cookiefile # None
       THEN \E r \in Outcomes :
               /\ Attempt("user_cookiefile", cookiefile, FALSE, r)
               /\ IF r.ok THEN ReturnInfo(r)
                  ELSE /\ x_pc' = "env_cookiefile"
                       /\ UNCHANGED result
       ELSE /\ x_pc' = "env_cookiefile"
            /\ UNCHANGED <<attempts, calls, result>>
    /\ UNCHANGED <<tvars, ovars>>
    /\ UNCHANGED <<BROWSER_COOKIE3_AVAILABLE, files, cookiefile,
                   try_browser_cookies, env, created_env_cookie>>

\* app.py:485-493
TryEnvCookiefile ==
    /\ x_pc = "env_cookiefile"
    /\ LET env_cookie_path == make_cookiefile_from_env(env) IN
       IF env_cookie_path # None
       THEN /\ files' = files \cup {env_cookie_path}
            /\ created_env_cookie' = env_cookie_path
            /\ \E r \in Outcomes :
                /\ Attempt("env_cookiefile", env_cookie_path, FALSE, r)
                /\ IF r.ok THEN ReturnInfo(r)
                   ELSE /\ x_pc' = "browser_cookiefile"
                        /\ UNCHANGED result
       ELSE /\ x_pc' = "browser_cookiefile"
            /\ UNCHANGED <<files, created_env_cookie, attempts, calls, result>>
    /\ UNCHANGED <<tvars, ovars>>
    /\ UNCHANGED <<BROWSER_COOKIE3_AVAILABLE, cookiefile, try_browser_cookies, env>>

\* TryBrowserCookiefile where a failed export is recorded as a failed attempt
TryBrowserCookiefile_FailureRecorded ==
    /\ x_pc = "browser_cookiefile"
    /\ IF try_browser_cookies /\ BROWSER_COOKIE3_AVAILABLE
       THEN \E ok \in BOOLEAN :
               IF ok
               THEN \E r \in Outcomes :
                       /\ Attempt("browser_cookiefile", "browser_tmp", FALSE, r)
                       /\ files' = files \ {"browser_tmp"}
                       /\ IF r.ok THEN ReturnInfo(r)
                          ELSE /\ x_pc' = "allow_unplayable"
                               /\ UNCHANGED result
               ELSE /\ files' = files \cup {"browser_tmp"}
                    /\ Attempt("browser_cookiefile", "browser_tmp", FALSE,
                               [ok |-> FALSE, info |-> None, error |-> "e1"])
                    /\ x_pc' = "allow_unplayable"
                    /\ UNCHANGED result
       ELSE /\ x_pc' = "allow_unplayable"
            /\ UNCHANGED <<files, attempts, calls, result>>
    /\ UNCHANGED <<tvars, ovars>>
    /\ UNCHANGED <<BROWSER_COOKIE3_AVAILABLE, cookiefile, try_browser_cookies,
                   env, created_env_cookie>>

\* app.py:494-512; ok is what export_browser_cookies_for_domain returns
\* (False also stands for the call raising, app.py:501-502)
TryBrowserCookiefile ==
    /\ x_pc = "browser_cookiefile"
    /\ IF try_browser_cookies /\ BROWSER_COOKIE3_AVAILABLE
       THEN \E ok \in BOOLEAN :
               IF ok
               THEN \E r \in Outcomes :
                       /\ Attempt("browser_cookiefile", "browser_tmp", FALSE, r)
                       /\ files' = files \ {"browser_tmp"}
                       /\ IF r.ok THEN ReturnInfo(r)
                          ELSE /\ x_pc' = "allow_unplayable"
                               /\ UNCHANGED result
               ELSE /\ files' = files \cup {"browser_tmp"}
                    /\ x_pc' = "allow_unplayable"
                    /\ UNCHANGED <<attempts, calls, result>>
       ELSE /\ x_pc' = "allow_unplayable"
            /\ UNCHANGED <<files, attempts, calls, result>>
    /\ UNCHANGED <<tvars, ovars>>
    /\ UNCHANGED <<BROWSER_COOKIE3_AVAILABLE, cookiefile, try_browser_cookies,
                   env, created_env_cookie>>

\* ReturnedError with the two attempts in the other order
ReturnedError_FirstWins(r4, r1) == PyOr(r1.error, r4.error)

\* The error the chain returns when every strategy failed, app.py:534
ReturnedError(r4, r1) == PyOr(r4.error, r1.error)

\* app.py:514-534
TryAllowUnplayable ==
    /\ x_pc = "allow_unplayable"
    /\ \E r4 \in Outcomes :
        /\ Attempt("allow_unplayable", created_env_cookie, TRUE, r4)
        /\ files' = IF created_env_cookie # None
                    THEN files \ {created_env_cookie} ELSE files
        /\ IF r4.ok THEN ReturnInfo(r4)
           ELSE /\ result' = [keys |-> {"error", "attempts"}, info |-> None,
                              error |-> ReturnedError(r4, attempts[1].r)]
                /\ x_pc' = "returned"
    /\ UNCHANGED <<tvars, ovars>>
    /\ UNCHANGED <<BROWSER_COOKIE3_AVAILABLE, cookiefile, try_browser_cookies,
                   env, created_env_cookie>>

\* No progress_hook call was made yet
NoEvent == [status |-> None]

\* The task side at rest, for the specification of the chain alone
TaskIdle ==
    /\ now = 0
    /\ status = "queued" /\ progress = 0 /\ speed = None
    /\ last_progress_time = NoTime /\ created = 0
    /\ filename = None /\ info = None /\ error = None /\ last_error = None
    /\ w_pc = "exit" /\ w_cookiefile = None
    /\ fmt_str = None /\ try_browser_flag = FALSE
    /\ cur = None /\ w_err = None /\ final_path = None
    /\ downloads = <<>> /\ events = 0 /\ fin = FALSE /\ hook_d = NoEvent
    /\ m_pc = "exit" /\ m_status = None /\ m_last = NoTime

\* A call yt_extract_info(url, cookiefile, try_browser_cookies) is entered
InitExtract ==
    /\ BROWSER_COOKIE3_AVAILABLE \in BOOLEAN
    /\ cookiefile \in {None, "user_cookie"}
    /\ try_browser_cookies \in BOOLEAN
    /\ env \in EnvModes
    /\ files = (IF cookiefile # None THEN {cookiefile} ELSE {})
                 \cup (IF env \in {"file_netscape", "file_json", "file_unusable"}
                       THEN {"env_file"} ELSE {})
    /\ x_pc = "no_cookies"
    /\ created_env_cookie = None
    /\ attempts = <<>>
    /\ calls = <<>>
    /\ result = None
    /\ TaskIdle
    /\ OthersIdle

NextExtract ==
    \/ TryNoCookies
    \/ TryUserCookiefile
    \/ TryEnvCookiefile
    \/ TryBrowserCookiefile
    \/ TryAllowUnplayable

SpecExtract == InitExtract /\ [][NextExtract]_vars

(***************************************************************************)
(* The task record, its worker, the progress hook and the stall monitor    *)
(***************************************************************************)

\* app.py:834 and app.py:836, in seconds
default_timeout == 180
processing_timeout == 900

\* The clock advances in steps of this many seconds, MaxTicks times at most
TickStep == default_timeout
MaxTicks == 6

\* The progress events one transfer delivers at most
MaxEvents == 2

Terminal == {"done", "error"}

\* The rungs of the worker's ladder, app.py:756-806
Rungs == <<"a", "b", "c", "d">>

\* The format_override attempt_download is called with on each rung
RungFormat(k) ==
    CASE k = "a" -> fmt_str
      [] k = "d" -> "best"
      [] OTHER   -> None

\* str(e) of the exception a transfer on rung k raises
RungError(k) ==
    CASE k = "a" -> "err_a"
      [] k = "b" -> "err_b"
      [] k = "c" -> "err_c"
      [] OTHER   -> "err_d"

\* The "downloading" events of the transfer: bytes so far and the total
\* (total_bytes or total_bytes_estimate), 0 when the transfer does not know it
\* (None and 0 are both false in app.py:704)
\* total_bytes is d.get("total_bytes") or d.get("total_bytes_estimate"), 0 when
\* neither is given (app.py:703); an estimate can be below what was received
DlEvents ==
    {[status |-> "downloading", downloaded_bytes |-> 1024, total_bytes |-> 2048],
     [status |-> "downloading", downloaded_bytes |-> 3072, total_bytes |-> 2048],
     [status |-> "downloading", downloaded_bytes |-> 2048, total_bytes |-> 0],
     [status |-> "downloading", downloaded_bytes |-> 204800, total_bytes |-> 0]}

\* The event yt-dlp delivers when a stream is complete, app.py:712
FinishedEvent == [status |-> "finished"]

Min(a, b) == IF a < b THEN a ELSE b

\* The percentage progress_hook writes for a "downloading" event, app.py:702-708
HookPercent(d) ==
    IF d.total_bytes > 0
    THEN (d.downloaded_bytes * 100) \div d.total_bytes
    ELSE Min(d.downloaded_bytes \div 1024, 99)

\* The files remux_or_encode may return, app.py:151-246
ResolverFiles == {"source", "remuxed", "transcoded"}

\* attempt_download(format_override, audio_conv) is entered and calls
\* ydl.extract_info(u, download=True), app.py:727-735
StartDownload(k) ==
    /\ downloads' = Append(downloads, [rung |-> k, format |-> RungFormat(k),
                                        cookiefile |-> w_cookiefile])
    /\ cur' = k
    /\ events' = 0
    /\ fin' = FALSE
    /\ w_pc' = "xfer"

\* app.py:721
W_SetRunning ==
    /\ w_pc = "start"
    /\ status' = "running"
    /\ w_pc' = "started"
    /\ UNCHANGED <<progress, speed, last_progress_time, created, filename, info,
                   error, last_error>>
    /\ UNCHANGED <<w_cookiefile, fmt_str, try_browser_flag, hook_d, cur, w_err, final_path, downloads,
                   events, fin>>
    /\ UNCHANGED <<BROWSER_COOKIE3_AVAILABLE, files, xvars, ovars, now, mvars>>

\* app.py:722-725
W_SetStartTime ==
    /\ w_pc = "started"
    /\ last_progress_time' = now
    /\ w_pc' = "ladder_a"
    /\ UNCHANGED <<status, progress, speed, created, filename, info, error,
                   last_error>>
    /\ UNCHANGED <<w_cookiefile, fmt_str, try_browser_flag, hook_d, cur, w_err, final_path, downloads,
                   events, fin>>
    /\ UNCHANGED <<BROWSER_COOKIE3_AVAILABLE, files, xvars, ovars, now, mvars>>

\* app.py:756-759
W_LadderA ==
    /\ w_pc = "ladder_a"
    /\ IF fmt_str # None
       THEN StartDownload("a")
       ELSE /\ w_pc' = "ladder_b"
            /\ UNCHANGED <<cur, downloads, events, fin>>
    /\ UNCHANGED <<w_cookiefile, fmt_str, try_browser_flag, hook_d, w_err, final_path>>
    /\ UNCHANGED <<BROWSER_COOKIE3_AVAILABLE, files, xvars, ovars, now, rvars, mvars>>

\* app.py:766-778; ok is what export_browser_cookies_for_domain returns
\* (False also stands for the call raising, app.py:772-773)
W_LadderB ==
    /\ w_pc = "ladder_b"
    /\ IF try_browser_flag /\ BROWSER_COOKIE3_AVAILABLE
       THEN /\ files' = files \cup {"browser_tmp"}
            /\ \E ok \in BOOLEAN :
                IF ok
                THEN StartDownload("b")
                ELSE /\ w_pc' = "ladder_c"
                     /\ UNCHANGED <<cur, downloads, events, fin>>
       ELSE /\ w_pc' = "ladder_c"
            /\ UNCHANGED <<files, cur, downloads, events, fin>>
    /\ UNCHANGED <<w_cookiefile, fmt_str, try_browser_flag, hook_d, w_err, final_path>>
    /\ UNCHANGED <<BROWSER_COOKIE3_AVAILABLE, xvars, ovars, now, rvars, mvars>>

\* app.py:789-791
W_LadderC ==
    /\ w_pc = "ladder_c"
    /\ StartDownload("c")
    /\ UNCHANGED <<w_cookiefile, fmt_str, try_browser_flag, hook_d, w_err, final_path>>
    /\ UNCHANGED <<BROWSER_COOKIE3_AVAILABLE, files, xvars, ovars, now, rvars, mvars>>

\* app.py:798-800
W_LadderD ==
    /\ w_pc = "ladder_d"
    /\ StartDownload("d")
    /\ UNCHANGED <<w_cookiefile, fmt_str, try_browser_flag, hook_d, w_err, final_path>>
    /\ UNCHANGED <<BROWSER_COOKIE3_AVAILABLE, files, xvars, ovars, now, rvars, mvars>>

\* progress_hook, "downloading": app.py:701-708
HookDownloading ==
    /\ w_pc = "xfer"
    /\ events < MaxEvents
    /\ \E d \in DlEvents :
        /\ hook_d' = d
        /\ progress' = HookPercent(d)
    /\ events' = events + 1
    /\ w_pc' = "hook_speed"
    /\ UNCHANGED <<status, speed, last_progress_time, created, filename, info,
                   error, last_error>>
    /\ UNCHANGED <<w_cookiefile, fmt_str, try_browser_flag, cur, w_err, final_path, downloads,
                   fin>>
    /\ UNCHANGED <<BROWSER_COOKIE3_AVAILABLE, files, xvars, ovars, now, mvars>>

\* app.py:709
HookSpeed ==
    /\ w_pc = "hook_speed"
    /\ speed' = "set"
    /\ w_pc' = "hook_time"
    /\ UNCHANGED <<status, progress, last_progress_time, created, filename, info,
                   error, last_error>>
    /\ UNCHANGED <<w_cookiefile, fmt_str, try_browser_flag, hook_d, cur, w_err, final_path, downloads,
                   events, fin>>
    /\ UNCHANGED <<BROWSER_COOKIE3_AVAILABLE, files, xvars, ovars, now, mvars>>

\* app.py:710-711
HookTime ==
    /\ w_pc = "hook_time"
    /\ last_progress_time' = now
    /\ w_pc' = "xfer"
    /\ UNCHANGED <<status, progress, speed, created, filename, info, error,
                   last_error>>
    /\ UNCHANGED <<w_cookiefile, fmt_str, try_browser_flag, hook_d, cur, w_err, final_path, downloads,
                   events, fin>>
    /\ UNCHANGED <<BROWSER_COOKIE3_AVAILABLE, files, xvars, ovars, now, mvars>>

\* progress_hook, "finished": app.py:712-713
HookFinished ==
    /\ w_pc = "xfer"
    /\ events < MaxEvents
    /\ hook_d' = FinishedEvent
    /\ progress' = 100
    /\ events' = events + 1
    /\ fin' = TRUE
    /\ w_pc' = "hook_fin_status"
    /\ UNCHANGED <<status, speed, last_progress_time, created, filename, info,
                   error, last_error>>
    /\ UNCHANGED <<w_cookiefile, fmt_str, try_browser_flag, cur, w_err, final_path, downloads>>
    /\ UNCHANGED <<BROWSER_COOKIE3_AVAILABLE, files, xvars, ovars, now, mvars>>

\* app.py:714
HookFinStatus ==
    /\ w_pc = "hook_fin_status"
    /\ status' = "processing"
    /\ w_pc' = "hook_fin_time"
    /\ UNCHANGED <<progress, speed, last_progress_time, created, filename, info,
                   error, last_error>>
    /\ UNCHANGED <<w_cookiefile, fmt_str, try_browser_flag, hook_d, cur, w_err, final_path, downloads,
                   events, fin>>
    /\ UNCHANGED <<BROWSER_COOKIE3_AVAILABLE, files, xvars, ovars, now, mvars>>

\* app.py:715-716
HookFinTime ==
    /\ w_pc = "hook_fin_time"
    /\ last_progress_time' = now
    /\ w_pc' = "xfer"
    /\ UNCHANGED <<status, progress, speed, created, filename, info, error,
                   last_error>>
    /\ UNCHANGED <<w_cookiefile, fmt_str, try_browser_flag, hook_d, cur, w_err, final_path, downloads,
                   events, fin>>
    /\ UNCHANGED <<BROWSER_COOKIE3_AVAILABLE, files, xvars, ovars, now, mvars>>

\* ydl.extract_info(u, download=True) raises, app.py:735
XferFail ==
    /\ w_pc = "xfer"
    /\ w_err' = RungError(cur)
    /\ w_pc' = "failed"
    /\ UNCHANGED <<w_cookiefile, fmt_str, try_browser_flag, hook_d, cur, final_path, downloads, events,
                   fin>>
    /\ UNCHANGED <<BROWSER_COOKIE3_AVAILABLE, files, xvars, ovars, now, rvars, mvars>>

\* XferOk with the status written without the call of the resolver
XferOk_SkipResolver ==
    /\ w_pc = "xfer"
    /\ fin
    /\ w_pc' = "set_done"
    /\ UNCHANGED <<w_cookiefile, fmt_str, try_browser_flag, hook_d, cur, w_err, final_path, downloads,
                   events, fin>>
    /\ UNCHANGED <<BROWSER_COOKIE3_AVAILABLE, files, xvars, ovars, now, rvars, mvars>>

\* ydl.extract_info(u, download=True) returns, which it does after it has
\* reported "finished" for the file; the raw file is located and the container
\* chosen, app.py:735-744
XferOk ==
    /\ w_pc = "xfer"
    /\ fin
    /\ w_pc' = "resolve"
    /\ UNCHANGED <<w_cookiefile, fmt_str, try_browser_flag, hook_d, cur, w_err, final_path, downloads,
                   events, fin>>
    /\ UNCHANGED <<BROWSER_COOKIE3_AVAILABLE, files, xvars, ovars, now, rvars, mvars>>

\* final_path = remux_or_encode(tid, real_path, chosen_ext), app.py:746
W_Resolve ==
    /\ w_pc = "resolve"
    /\ final_path' \in ResolverFiles
    /\ w_pc' = "set_done"
    /\ UNCHANGED <<w_cookiefile, fmt_str, try_browser_flag, hook_d, cur, w_err, downloads, events, fin>>
    /\ UNCHANGED <<BROWSER_COOKIE3_AVAILABLE, files, xvars, ovars, now, rvars, mvars>>

\* TASKS[tid].update({...}), one dict.update, app.py:747-751
W_SetDone ==
    /\ w_pc = "set_done"
    /\ status' = "done"
    /\ progress' = 100
    /\ filename' = final_path
    /\ info' = "title_id"
    /\ last_progress_time' = now
    /\ w_pc' = "done_return"
    /\ UNCHANGED <<speed, created, error, last_error>>
    /\ UNCHANGED <<w_cookiefile, fmt_str, try_browser_flag, hook_d, cur, w_err, final_path, downloads,
                   events, fin>>
    /\ UNCHANGED <<BROWSER_COOKIE3_AVAILABLE, files, xvars, ovars, now, mvars>>

\* attempt_download returns True and the worker returns, app.py:752-753, 760,
\* 779-781, 792, 801
W_DoneReturn ==
    /\ w_pc = "done_return"
    /\ files' = IF cur = "b" THEN files \ {"browser_tmp"} ELSE files
    /\ w_pc' = "finally"
    /\ UNCHANGED <<w_cookiefile, fmt_str, try_browser_flag, hook_d, cur, w_err, final_path, downloads,
                   events, fin>>
    /\ UNCHANGED <<BROWSER_COOKIE3_AVAILABLE, xvars, ovars, now, rvars, mvars>>

\* W_HandleFailure with the failure of a rung ending the task
W_HandleFailure_SetsError ==
    /\ w_pc = "failed"
    /\ cur \in {"a", "b", "c"}
    /\ status' = "error"
    /\ error' = w_err
    /\ last_error' = w_err
    /\ files' = IF cur = "b" THEN files \ {"browser_tmp"} ELSE files
    /\ w_pc' = CASE cur = "a" -> "ladder_b"
                 [] cur = "b" -> "ladder_c"
                 [] OTHER     -> "ladder_d"
    /\ UNCHANGED <<progress, speed, last_progress_time, created, filename, info>>
    /\ UNCHANGED <<w_cookiefile, fmt_str, try_browser_flag, hook_d, cur, w_err, final_path, downloads,
                   events, fin>>
    /\ UNCHANGED <<BROWSER_COOKIE3_AVAILABLE, xvars, ovars, now, mvars>>

\* The handlers of rungs a, b and c, app.py:761-764, 782-787, 793-796
W_HandleFailure ==
    /\ w_pc = "failed"
    /\ cur \in {"a", "b", "c"}
    /\ last_error' = w_err
    /\ files' = IF cur = "b" THEN files \ {"browser_tmp"} ELSE files
    /\ w_pc' = CASE cur = "a" -> "ladder_b"
                 [] cur = "b" -> "ladder_c"
                 [] OTHER     -> "ladder_d"
    /\ UNCHANGED <<status, progress, speed, last_progress_time, created,
                   filename, info, error>>
    /\ UNCHANGED <<w_cookiefile, fmt_str, try_browser_flag, hook_d, cur, w_err, final_path, downloads,
                   events, fin>>
    /\ UNCHANGED <<BROWSER_COOKIE3_AVAILABLE, xvars, ovars, now, mvars>>

\* The handler of rung d, app.py:802-806
W_FinalFailure ==
    /\ w_pc = "failed"
    /\ cur = "d"
    /\ status' = "error"
    /\ error' = w_err
    /\ w_pc' = "finally"
    /\ UNCHANGED <<progress, speed, last_progress_time, created, filename, info,
                   last_error>>
    /\ UNCHANGED <<w_cookiefile, fmt_str, try_browser_flag, hook_d, cur, w_err, final_path, downloads,
                   events, fin>>
    /\ UNCHANGED <<BROWSER_COOKIE3_AVAILABLE, files, xvars, ovars, now, mvars>>

\* The credential files whose path starts with tempfile.gettempdir(): those
\* tempfile.NamedTemporaryFile created
InTempDir(f) == f \in {"upload_tmp", "env_tmp", "route_env_tmp", "browser_tmp"}

\* app.py:812-819
W_Finally ==
    /\ w_pc = "finally"
    /\ files' = IF w_cookiefile # None /\ InTempDir(w_cookiefile)
                THEN files \ {w_cookiefile} ELSE files
    /\ w_pc' = "exit"
    /\ UNCHANGED <<w_cookiefile, fmt_str, try_browser_flag, hook_d, cur, w_err, final_path, downloads,
                   events, fin>>
    /\ UNCHANGED <<BROWSER_COOKIE3_AVAILABLE, xvars, ovars, now, rvars, mvars>>

\* The timeout of the phase the monitor read, app.py:834-838
PhaseTimeout(st) ==
    IF st = "processing" THEN processing_timeout ELSE default_timeout

\* app.py:827-832
M_Poll ==
    /\ m_pc = "poll"
    /\ IF status \in Terminal
       THEN /\ m_pc' = "exit"
            /\ UNCHANGED m_status
       ELSE /\ m_pc' = "read_last"
            /\ m_status' = status
    /\ UNCHANGED m_last
    /\ UNCHANGED <<BROWSER_COOKIE3_AVAILABLE, files, xvars, ovars, now, rvars, wvars>>

\* last = t.get("last_progress_time", t.get("created", ...)), app.py:833
M_ReadLast ==
    /\ m_pc = "read_last"
    /\ m_last' = IF last_progress_time # NoTime THEN last_progress_time ELSE created
    /\ m_pc' = "check"
    /\ UNCHANGED m_status
    /\ UNCHANGED <<BROWSER_COOKIE3_AVAILABLE, files, xvars, ovars, now, rvars, wvars>>

\* The elapsed-time test of the monitor, app.py:839
Stalled(t, last, timeout) == t - last > timeout

\* app.py:834-839 and, when the test fails, the sleep of app.py:843
M_Check ==
    /\ m_pc = "check"
    /\ IF Stalled(now, m_last, PhaseTimeout(m_status))
       THEN /\ m_pc' = "write"
            /\ UNCHANGED <<m_status, m_last>>
       ELSE /\ m_pc' = "poll"
            /\ m_status' = None
            /\ m_last' = NoTime
    /\ UNCHANGED <<BROWSER_COOKIE3_AVAILABLE, files, xvars, ovars, now, rvars, wvars>>

\* The monitor goes on polling after its write
M_Write_KeepsPolling ==
    /\ m_pc = "write"
    /\ status' = "error"
    /\ error' = "stalled_download_timeout"
    /\ m_pc' = "poll"
    /\ UNCHANGED <<m_status, m_last>>
    /\ UNCHANGED <<progress, speed, last_progress_time, created, filename, info,
                   last_error>>
    /\ UNCHANGED <<BROWSER_COOKIE3_AVAILABLE, files, xvars, ovars, now, wvars>>

\* TASKS[task_id].update({...}), one dict.update, app.py:840-842
M_Write ==
    /\ m_pc = "write"
    /\ status' = "error"
    /\ error' = "stalled_download_timeout"
    /\ m_pc' = "exit"
    /\ UNCHANGED <<m_status, m_last>>
    /\ UNCHANGED <<progress, speed, last_progress_time, created, filename, info,
                   last_error>>
    /\ UNCHANGED <<BROWSER_COOKIE3_AVAILABLE, files, xvars, ovars, now, wvars>>

\* Time passes, TickStep seconds at a time, while the worker is inside a
\* blocking external call, the transfer (app.py:735) or the resolver
\* (app.py:746), and the monitor sleeps (app.py:843) or has returned; the
\* statements of the hook, of the handlers and of one monitor round take no
\* such time.
Tick ==
    /\ w_pc \in {"xfer", "resolve"}
    /\ m_pc \in {"poll", "exit"}
    /\ now + TickStep <= MaxTicks * TickStep
    /\ now' = now + TickStep
    /\ UNCHANGED <<BROWSER_COOKIE3_AVAILABLE, files, xvars, ovars, rvars, wvars, mvars>>

\* The chain at rest, for the specification of the task alone
ExtractIdle ==
    /\ x_pc = "returned" /\ cookiefile = None /\ try_browser_cookies = FALSE
    /\ env = "unset" /\ created_env_cookie = None
    /\ attempts = <<>> /\ calls = <<>> /\ result = None

\* download_route has created the record and started both threads,
\* app.py:692-696, 821-845
Init ==
    /\ BROWSER_COOKIE3_AVAILABLE \in BOOLEAN
    /\ w_cookiefile \in {None, "upload_tmp"}
    /\ files = IF w_cookiefile # None THEN {w_cookiefile} ELSE {}
    /\ ExtractIdle
    /\ now = 0
    /\ status = "queued" /\ progress = 0 /\ speed = None
    /\ last_progress_time = NoTime /\ created = 0
    /\ filename = None /\ info = None /\ error = None /\ last_error = None
    /\ w_pc = "start"
    /\ fmt_str \in {None, "fmt"}
    /\ try_browser_flag \in BOOLEAN
    /\ cur = None /\ w_err = None /\ final_path = None
    /\ downloads = <<>> /\ events = 0 /\ fin = FALSE /\ hook_d = NoEvent
    /\ m_pc = "poll" /\ m_status = None /\ m_last = NoTime
    /\ OthersIdle

Next ==
    \/ W_SetRunning
    \/ W_SetStartTime
    \/ W_LadderA
    \/ W_LadderB
    \/ W_LadderC
    \/ W_LadderD
    \/ HookDownloading
    \/ HookSpeed
    \/ HookTime
    \/ HookFinished
    \/ HookFinStatus
    \/ HookFinTime
    \/ XferFail
    \/ XferOk
    \/ W_Resolve
    \/ W_SetDone
    \/ W_DoneReturn
    \/ W_HandleFailure
    \/ W_FinalFailure
    \/ W_Finally
    \/ M_Poll
    \/ M_ReadLast
    \/ M_Check
    \/ M_Write
    \/ Tick

Spec == Init /\ [][Next]_vars

(***************************************************************************)
(* The task under fair scheduling                                          *)
(*                                                                         *)
(* The worker and the monitor are two daemon threads the interpreter keeps *)
(* scheduling (app.py:821-822, 845): a statement either of them is about   *)
(* to run is run.  The clock keeps advancing.  Nothing makes the external  *)
(* calls of the worker return: the transfer (app.py:735), with the events  *)
(* it delivers to the hook, and the resolver (app.py:746) may block for    *)
(* ever.                                                                   *)
(***************************************************************************)

\* A timestamp seen TickStep later; the tests of the monitor read differences
\* only (app.py:839), and beyond MaxTicks * TickStep they are all true
Age(t) == IF t = NoTime THEN NoTime
          ELSE IF t - TickStep < 0 THEN 0 ELSE t - TickStep

\* Time passes beyond MaxTicks * TickStep: the clock is kept and the record's
\* timestamps are moved back instead
TickPast ==
    /\ w_pc \in {"xfer", "resolve"}
    /\ m_pc \in {"poll", "exit"}
    /\ now + TickStep > MaxTicks * TickStep
    /\ last_progress_time' = Age(last_progress_time)
    /\ created' = Age(created)
    /\ UNCHANGED <<status, progress, speed, filename, info, error, last_error>>
    /\ UNCHANGED <<BROWSER_COOKIE3_AVAILABLE, files, xvars, ovars, now, wvars, mvars>>

\* The statements of the worker thread and of the hook it runs, without the
\* external calls
WorkerStatement ==
    \/ W_SetRunning \/ W_SetStartTime
    \/ W_LadderA \/ W_LadderB \/ W_LadderC \/ W_LadderD
    \/ HookSpeed \/ HookTime \/ HookFinStatus \/ HookFinTime
    \/ W_SetDone \/ W_DoneReturn
    \/ W_HandleFailure \/ W_FinalFailure \/ W_Finally

\* The statements of the monitor thread
MonitorStatement == M_Poll \/ M_ReadLast \/ M_Check \/ M_Write

\* The task is started without the browser option and without a credential
\* file: the ladder goes through its attempts (a), (c) and (d)
InitFair ==
    /\ Init
    /\ ~try_browser_flag
    /\ w_cookiefile = None
    /\ ~BROWSER_COOKIE3_AVAILABLE

NextFair ==
    \/ W_SetRunning
    \/ W_SetStartTime
    \/ W_LadderA
    \/ W_LadderB
    \/ W_LadderC
    \/ W_LadderD
    \/ HookDownloading
    \/ HookSpeed
    \/ HookTime
    \/ HookFinished
    \/ HookFinStatus
    \/ HookFinTime
    \/ XferFail
    \/ XferOk
    \/ W_Resolve
    \/ W_SetDone
    \/ W_DoneReturn
    \/ W_HandleFailure
    \/ W_FinalFailure
    \/ W_Finally
    \/ M_Poll
    \/ M_ReadLast
    \/ M_Check
    \/ M_Write
    \/ Tick
    \/ TickPast

SpecFair ==
    /\ InitFair
    /\ [][NextFair]_vars
    /\ WF_vars(WorkerStatement)
    /\ WF_vars(MonitorStatement)
    /\ SF_vars(Tick \/ TickPast)

(***************************************************************************)
(* download_route: the chain, the format resolution, then the worker       *)
(* (specification SpecRoute)                                               *)
(***************************************************************************)

\* The formats of the extracted metadata: format_id, vcodec, acodec.  The
\* id "18" is listed twice, the loop of app.py:675-678 stops at the first.
ListedFormats ==
    << [format_id |-> "18", vcodec |-> "avc1", acodec |-> "mp4a"],
       [format_id |-> "137", vcodec |-> "avc1", acodec |-> "none"],
       [format_id |-> "248", vcodec |-> "vp9", acodec |-> None],
       [format_id |-> "18", vcodec |-> "avc1", acodec |-> "none"] >>

\* The values of the request parameter "requested"
Requests == {None, "18", "137", "999", "audio:mp3"}

\* requested.startswith("audio:")
IsAudioRequest(req) == req \in {"audio:mp3"}

\* requested.split(":", 1)[1]
AudioCodec(req) == CASE req = "audio:mp3" -> "mp3" [] OTHER -> None

\* f"{requested}+bestaudio/best"
PlusBestAudio(req) ==
    CASE req = "18" -> "18+bestaudio/best"
      [] req = "137" -> "137+bestaudio/best"
      [] req = "248" -> "248+bestaudio/best"
      [] OTHER -> "999+bestaudio/best"

\* The first format whose format_id is the requested one, as the index in
\* the list; 0 when there is none (sel = None)
Select(req, fmts) ==
    IF \E i \in 1..Len(fmts) : fmts[i].format_id = req
    THEN CHOOSE i \in 1..Len(fmts) :
            /\ fmts[i].format_id = req
            /\ \A j \in 1..(i - 1) : fmts[j].format_id # req
    ELSE 0

\* app.py:663-690: fmt_to_use and audio_convert
ResolveFormat(req, res, fmts) ==
    LET none == [fmt_to_use |-> None, audio_convert |-> None] IN
    IF "info" \notin res.keys THEN none
    ELSE IF req # None /\ IsAudioRequest(req)
         THEN [fmt_to_use |-> "bestaudio", audio_convert |-> AudioCodec(req)]
    ELSE IF req # None
         THEN LET sel == Select(req, fmts) IN
              IF sel = 0 THEN none
              ELSE IF /\ fmts[sel].vcodec \notin {None, "none"}
                      /\ fmts[sel].acodec \in {None, "none"}
                   THEN [fmt_to_use |-> PlusBestAudio(req), audio_convert |-> None]
                   ELSE [fmt_to_use |-> req, audio_convert |-> None]
    ELSE none

\* The file make_cookiefile_from_env gives download_route: a temporary file
\* of its own, or the file YTDLP_COOKIES_FILE names
RouteEnvPath(e) ==
    IF make_cookiefile_from_env(e) = "env_tmp" THEN "route_env_tmp"
    ELSE make_cookiefile_from_env(e)

\* app.py:636-653, up to the call of yt_extract_info
D_Prefetch ==
    /\ d_pc = "prefetch"
    /\ LET cookiefile_path == IF upload THEN "upload_tmp" ELSE RouteEnvPath(env)
       IN  /\ cookiefile' = cookiefile_path
           /\ files' = IF cookiefile_path # None
                       THEN files \cup {cookiefile_path} ELSE files
    /\ x_pc' = "no_cookies"
    /\ d_pc' = "chain"
    /\ UNCHANGED <<BROWSER_COOKIE3_AVAILABLE, try_browser_cookies, env,
                   created_env_cookie, attempts, calls, result>>
    /\ UNCHANGED <<tvars, cvars, qvars, lvars>>
    /\ UNCHANGED <<requested, upload, formats, audio_convert>>

\* D_CreateTask starting the worker with the requested id whatever the
\* extracted formats are
D_CreateTask_NoLookup ==
    /\ d_pc = "chain"
    /\ x_pc = "returned"
    /\ fmt_str' = requested
    /\ audio_convert' = None
    /\ status' = "queued" /\ progress' = 0 /\ created' = now
    /\ w_cookiefile' = cookiefile
    /\ try_browser_flag' = try_browser_cookies
    /\ w_pc' = "start"
    /\ m_pc' = "poll"
    /\ d_pc' = "started"
    /\ UNCHANGED <<speed, last_progress_time, filename, info, error, last_error>>
    /\ UNCHANGED <<cur, w_err, final_path, downloads, events, fin, hook_d>>
    /\ attempts' = <<>> /\ calls' = <<>> /\ created_env_cookie' = None
    /\ UNCHANGED <<x_pc, cookiefile, try_browser_cookies, env, result>>
    /\ UNCHANGED <<m_status, m_last, now>>
    /\ UNCHANGED <<BROWSER_COOKIE3_AVAILABLE, files, cvars, qvars, lvars>>
    /\ UNCHANGED <<requested, upload, formats>>

\* app.py:660-696 and 820-847: the format resolution, the insert of the
\* record, the start of the worker and of the monitor.  The locals of the
\* returned yt_extract_info are gone; of its result download_route reads
\* the keys "info" and "error" only.
D_CreateTask ==
    /\ d_pc = "chain"
    /\ x_pc = "returned"
    /\ LET r == ResolveFormat(requested, result, formats)
       IN  /\ fmt_str' = r.fmt_to_use
           /\ audio_convert' = r.audio_convert
    /\ status' = "queued" /\ progress' = 0 /\ created' = now
    /\ w_cookiefile' = cookiefile
    /\ try_browser_flag' = try_browser_cookies
    /\ w_pc' = "start"
    /\ m_pc' = "poll"
    /\ d_pc' = "started"
    /\ UNCHANGED <<speed, last_progress_time, filename, info, error, last_error>>
    /\ UNCHANGED <<cur, w_err, final_path, downloads, events, fin, hook_d>>
    /\ attempts' = <<>> /\ calls' = <<>> /\ created_env_cookie' = None
    /\ UNCHANGED <<x_pc, cookiefile, try_browser_cookies, env, result>>
    /\ UNCHANGED <<m_status, m_last, now>>
    /\ UNCHANGED <<BROWSER_COOKIE3_AVAILABLE, files, cvars, qvars, lvars>>
    /\ UNCHANGED <<requested, upload, formats>>

\* A POST /download with its parameters, the environment and what the site
\* lists; the record does not exist yet
InitRoute ==
    /\ BROWSER_COOKIE3_AVAILABLE \in BOOLEAN
    /\ env \in EnvModes
    /\ files = IF env \in {"file_netscape", "file_json", "file_unusable"}
               THEN {"env_file"} ELSE {}
    /\ x_pc = "idle" /\ cookiefile = None
    /\ try_browser_cookies \in BOOLEAN
    /\ created_env_cookie = None
    /\ attempts = <<>> /\ calls = <<>> /\ result = None
    /\ TaskIdle /\ CompatIdle /\ RemuxIdle /\ LogIdle
    /\ d_pc = "prefetch"
    /\ requested \in Requests
    /\ upload \in BOOLEAN
    /\ formats \in {<<>>, ListedFormats}
    /\ audio_convert = None

\* The request handler, the chain it calls, and the worker thread it
\* starts.  The monitor thread is started and not scheduled: nothing the
\* worker does depends on it.
NextRoute ==
    \/ D_Prefetch
    \/ TryNoCookies
    \/ TryUserCookiefile
    \/ TryEnvCookiefile
    \/ TryBrowserCookiefile
    \/ TryAllowUnplayable
    \/ D_CreateTask
    \/ W_SetRunning
    \/ W_SetStartTime
    \/ W_LadderA
    \/ W_LadderB
    \/ W_LadderC
    \/ W_LadderD
    \/ HookDownloading
    \/ HookSpeed
    \/ HookTime
    \/ HookFinished
    \/ HookFinStatus
    \/ HookFinTime
    \/ XferFail
    \/ XferOk
    \/ W_Resolve
    \/ W_SetDone
    \/ W_DoneReturn
    \/ W_HandleFailure
    \/ W_FinalFailure
    \/ W_Finally

SpecRoute == InitRoute /\ [][NextRoute]_vars

(***************************************************************************)
(* task_status, the reader of the record (specifications SpecStatus and    *)
(* SpecLog), and add_task_message                                          *)
(***************************************************************************)

\* The number of messages a response carries, app.py:854
MsgWindow == 300

\* The longest log of the model
MaxMessages == 302

Max(a, b) == IF a > b THEN a ELSE b

\* s[:k] of a Python list
PySliceFirst(s, k) == SubSeq(s, 1, Min(k, Len(s)))

\* s[-k:] of a Python list, k > 0
PySliceLast(s, k) == SubSeq(s, Max(Len(s) - k, 0) + 1, Len(s))

\* app.py:41-46; the text of a message is modelled by its ordinal in the log
add_task_message ==
    /\ Len(messages) < MaxMessages
    /\ messages' = Append(messages, [ts |-> now, text |-> Len(messages) + 1])
    /\ UNCHANGED <<s_pc, msgs, resp>>
    /\ UNCHANGED <<BROWSER_COOKIE3_AVAILABLE, files, xvars, tvars, cvars, qvars, dvars>>

\* app.py:851-854: msgs = t.get("messages", [])[-300:]
TS_ReadMessages_FirstEntries ==
    /\ s_pc = "idle"
    /\ msgs' = PySliceFirst(messages, MsgWindow)
    /\ resp' = NoResp
    /\ s_pc' = "copy"
    /\ UNCHANGED messages
    /\ UNCHANGED <<BROWSER_COOKIE3_AVAILABLE, files, xvars, tvars, cvars, qvars, dvars>>

TS_ReadMessages ==
    /\ s_pc = "idle"
    /\ msgs' = PySliceLast(messages, MsgWindow)
    /\ resp' = NoResp
    /\ s_pc' = "copy"
    /\ UNCHANGED messages
    /\ UNCHANGED <<BROWSER_COOKIE3_AVAILABLE, files, xvars, tvars, cvars, qvars, dvars>>

\* app.py:855-857: the copy of the other keys of the record, taken here in
\* one step, and the response
TS_Copy ==
    /\ s_pc = "copy"
    /\ resp' = [status |-> status, progress |-> progress, speed |-> speed,
                last_progress_time |-> last_progress_time, created |-> created,
                filename |-> filename, info |-> info, error |-> error,
                last_error |-> last_error, messages |-> msgs]
    /\ s_pc' = "idle"
    /\ UNCHANGED <<messages, msgs>>
    /\ UNCHANGED <<BROWSER_COOKIE3_AVAILABLE, files, xvars, tvars, cvars, qvars, dvars>>

\* The record of a task whose threads are not scheduled, its log, and the
\* requests GET /task/<task_id>
InitLog ==
    /\ BROWSER_COOKIE3_AVAILABLE = FALSE /\ files = {}
    /\ ExtractIdle /\ TaskIdle /\ CompatIdle /\ RemuxIdle /\ RouteIdle
    /\ LogIdle

NextLog ==
    \/ add_task_message
    \/ TS_ReadMessages
    \/ TS_Copy

SpecLog == InitLog /\ [][NextLog]_vars

\* The worker and its progress hook on the record, and the requests
\* GET /task/<task_id> in between.  The monitor is started and not scheduled.
NextStatus ==
    \/ W_SetRunning
    \/ W_SetStartTime
    \/ W_LadderA
    \/ W_LadderB
    \/ W_LadderC
    \/ W_LadderD
    \/ HookDownloading
    \/ HookSpeed
    \/ HookTime
    \/ HookFinished
    \/ HookFinStatus
    \/ HookFinTime
    \/ XferFail
    \/ XferOk
    \/ W_Resolve
    \/ W_SetDone
    \/ W_DoneReturn
    \/ W_HandleFailure
    \/ W_FinalFailure
    \/ W_Finally
    \/ TS_ReadMessages
    \/ TS_Copy

SpecStatus == Init /\ [][NextStatus]_vars

(***************************************************************************)
(* is_quicktime_compatible called on its own                               *)
(***************************************************************************)

IsQuicktimeCompatible ==
    /\ c_pc = "call"
    /\ compatible' = is_quicktime_compatible(codecs)
    /\ c_pc' = "returned"
    /\ UNCHANGED <<BROWSER_COOKIE3_AVAILABLE, files, xvars, tvars, codecs, qvars,
                   dvars, lvars>>
    /\ UNCHANGED <<k_pc, k_info, container>>

InitCompat ==
    /\ BROWSER_COOKIE3_AVAILABLE = FALSE /\ files = {}
    /\ ExtractIdle /\ TaskIdle /\ RemuxIdle /\ RouteIdle /\ LogIdle
    /\ c_pc = "call"
    /\ codecs \in {NoProbe} \cup {ProbeResult(v, a) : v \in VideoNames, a \in AudioNames}
    /\ compatible = FALSE
    /\ k_pc = "idle" /\ k_info = Info(NoneStr, NoneStr) /\ container = None

NextCompat == IsQuicktimeCompatible

SpecCompat == InitCompat /\ [][NextCompat]_vars

(***************************************************************************)
(* choose_best_container called on its own (specification SpecContainer)   *)
(***************************************************************************)

ChooseBestContainer ==
    /\ k_pc = "call"
    /\ container' = choose_best_container(k_info)
    /\ k_pc' = "returned"
    /\ UNCHANGED <<BROWSER_COOKIE3_AVAILABLE, files, xvars, tvars, qvars, dvars,
                   lvars>>
    /\ UNCHANGED <<c_pc, codecs, compatible, k_info>>

InitContainer ==
    /\ BROWSER_COOKIE3_AVAILABLE = FALSE /\ files = {}
    /\ ExtractIdle /\ TaskIdle /\ RemuxIdle /\ RouteIdle /\ LogIdle
    /\ c_pc = "idle" /\ codecs = NoProbe /\ compatible = FALSE
    /\ k_pc = "call"
    /\ k_info \in {Info(v, a) : v \in InfoVideoNames, a \in InfoAudioNames}
    /\ container = None

NextContainer == ChooseBestContainer

SpecContainer == InitContainer /\ [][NextContainer]_vars

(***************************************************************************)
(* remux_or_encode (specification SpecRemux)                               *)
(***************************************************************************)

\* One ffmpeg invocation: its exit status as run_subprocess reports it, and
\* whether it left a file at its output path
Invocation(cmd, input, output, rc, written) ==
    [cmd |-> cmd, input |-> input, output |-> output, rc |-> rc,
     written |-> written]

\* path.unlink() inside try/except: the file is removed, or unlink raised
\* and the file is kept
Unlink(path, d, ok) == IF ok THEN d \ {path} ELSE d

Return(path, stmt) ==
    /\ ret' = path
    /\ r_return' = stmt
    /\ r_pc' = "returned"

\* app.py:152-160
R_CheckExisting_NoEarlyReturn ==
    /\ r_pc = "start"
    /\ IF ExtLower(src_ext) = desired_ext
       THEN \E c \in Probes(src_codecs) : r_codecs' = c
       ELSE UNCHANGED r_codecs
    /\ r_pc' = "version"
    /\ UNCHANGED <<ret, r_return>>
    /\ UNCHANGED <<BROWSER_COOKIE3_AVAILABLE, files, xvars, tvars, cvars, dvars,
                   lvars>>
    /\ UNCHANGED <<src_ext, desired_ext, reencode_on_fail, src_codecs, dir,
                   outname, enc_out, ffmpeg, unlink_refused>>

R_CheckExisting ==
    /\ r_pc = "start"
    /\ IF ExtLower(src_ext) = desired_ext
       THEN \E c \in Probes(src_codecs) :
               /\ r_codecs' = c
               /\ IF c.probe /\ is_quicktime_compatible(c)
                  THEN Return(SrcPath, "already_compatible")
                  ELSE r_pc' = "version" /\ UNCHANGED <<ret, r_return>>
       ELSE r_pc' = "version" /\ UNCHANGED <<r_codecs, ret, r_return>>
    /\ UNCHANGED <<BROWSER_COOKIE3_AVAILABLE, files, xvars, tvars, cvars, dvars,
                   lvars>>
    /\ UNCHANGED <<src_ext, desired_ext, reencode_on_fail, src_codecs, dir,
                   outname, enc_out, ffmpeg, unlink_refused>>

\* app.py:162-166
R_Version ==
    /\ r_pc = "version"
    /\ \E rc \in ExitCodes :
          /\ ffmpeg' = Append(ffmpeg,
                              Invocation("version", NoFile, NoFile, rc, FALSE))
          /\ IF rc # 0
             THEN Return(SrcPath, "ffmpeg_unavailable")
             ELSE r_pc' = "remux" /\ UNCHANGED <<ret, r_return>>
    /\ UNCHANGED <<BROWSER_COOKIE3_AVAILABLE, files, xvars, tvars, cvars, dvars,
                   lvars>>
    /\ UNCHANGED <<src_ext, desired_ext, reencode_on_fail, src_codecs, dir,
                   r_codecs, outname, enc_out, unlink_refused>>

\* app.py:168-199.  ffmpeg may leave a file at its output path whatever its
\* exit status is; a stream copy keeps the codecs of the source.
R_Remux ==
    /\ r_pc = "remux"
    /\ LET out == FreeName(desired_ext, dir)
       IN  \E rc1 \in ExitCodes, written \in BOOLEAN :
              LET d1 == IF written THEN dir \cup {out} ELSE dir
              IN  /\ outname' = out
                  /\ ffmpeg' = Append(ffmpeg,
                                      Invocation("remux", SrcPath, out, rc1, written))
                  /\ IF rc1 = 0 /\ out \in d1
                     THEN \E c \in Probes(src_codecs) :
                             /\ r_codecs' = c
                             /\ IF c.probe /\ is_quicktime_compatible(c)
                                THEN \E ok \in BOOLEAN :
                                        /\ dir' = Unlink(SrcPath, d1, ok)
                                        /\ unlink_refused' = ~ok
                                        /\ Return(out, "remuxed")
                                ELSE /\ dir' = d1
                                     /\ r_pc' = "fallback"
                                     /\ UNCHANGED <<ret, r_return, unlink_refused>>
                     ELSE /\ dir' = d1
                          /\ r_pc' = "fallback"
                          /\ UNCHANGED <<r_codecs, ret, r_return, unlink_refused>>
    /\ UNCHANGED <<BROWSER_COOKIE3_AVAILABLE, files, xvars, tvars, cvars, dvars,
                   lvars>>
    /\ UNCHANGED <<src_ext, desired_ext, reencode_on_fail, src_codecs, enc_out>>

\* app.py:200-204
R_NoReencode_ReturnsSource ==
    /\ r_pc = "fallback"
    /\ ~reencode_on_fail
    /\ Return(SrcPath, "reencode_disabled")
    /\ UNCHANGED <<BROWSER_COOKIE3_AVAILABLE, files, xvars, tvars, cvars, dvars,
                   lvars>>
    /\ UNCHANGED <<src_ext, desired_ext, reencode_on_fail, src_codecs, dir,
                   r_codecs, outname, enc_out, ffmpeg, unlink_refused>>

R_NoReencode ==
    /\ r_pc = "fallback"
    /\ ~reencode_on_fail
    /\ Return(IF outname \in dir THEN outname ELSE SrcPath, "reencode_disabled")
    /\ UNCHANGED <<BROWSER_COOKIE3_AVAILABLE, files, xvars, tvars, cvars, dvars,
                   lvars>>
    /\ UNCHANGED <<src_ext, desired_ext, reencode_on_fail, src_codecs, dir,
                   r_codecs, outname, enc_out, ffmpeg, unlink_refused>>

\* app.py:206-241
R_Transcode_KeepsRemuxOutput ==
    /\ r_pc = "fallback"
    /\ reencode_on_fail
    /\ LET out == FreeName("mp4", dir)
           input == IF outname \in dir THEN outname ELSE SrcPath
       IN  \E rc2 \in ExitCodes, written \in BOOLEAN :
              LET d1 == IF written THEN dir \cup {out} ELSE dir
              IN  /\ enc_out' = out
                  /\ ffmpeg' = Append(ffmpeg,
                                      Invocation("transcode", input, out, rc2, written))
                  /\ IF rc2 = 0 /\ out \in d1
                     THEN \E ok1 \in BOOLEAN :
                             /\ dir' = Unlink(SrcPath, d1, ok1)
                             /\ unlink_refused' = ~ok1
                             /\ Return(out, "transcoded")
                     ELSE /\ dir' = d1
                          /\ UNCHANGED unlink_refused
                          /\ Return(IF outname \in d1 THEN outname ELSE SrcPath,
                                    "transcode_failed")
    /\ UNCHANGED <<BROWSER_COOKIE3_AVAILABLE, files, xvars, tvars, cvars, dvars,
                   lvars>>
    /\ UNCHANGED <<src_ext, desired_ext, reencode_on_fail, src_codecs, r_codecs,
                   outname>>

R_Transcode ==
    /\ r_pc = "fallback"
    /\ reencode_on_fail
    /\ LET out == FreeName("mp4", dir)
           input == IF outname \in dir THEN outname ELSE SrcPath
       IN  \E rc2 \in ExitCodes, written \in BOOLEAN :
              LET d1 == IF written THEN dir \cup {out} ELSE dir
              IN  /\ enc_out' = out
                  /\ ffmpeg' = Append(ffmpeg,
                                      Invocation("transcode", input, out, rc2, written))
                  /\ IF rc2 = 0 /\ out \in d1
                     THEN \E ok1 \in BOOLEAN, ok2 \in BOOLEAN :
                             LET d2 == Unlink(SrcPath, d1, ok1)
                                 other == outname \in d2 /\ outname # out
                             IN  /\ dir' = IF other THEN Unlink(outname, d2, ok2)
                                                    ELSE d2
                                 /\ unlink_refused' = (~ok1 \/ (other /\ ~ok2))
                                 /\ Return(out, "transcoded")
                     ELSE /\ dir' = d1
                          /\ UNCHANGED unlink_refused
                          /\ Return(IF outname \in d1 THEN outname ELSE SrcPath,
                                    "transcode_failed")
    /\ UNCHANGED <<BROWSER_COOKIE3_AVAILABLE, files, xvars, tvars, cvars, dvars,
                   lvars>>
    /\ UNCHANGED <<src_ext, desired_ext, reencode_on_fail, src_codecs, r_codecs,
                   outname>>

\* Files of other downloads with the same base name that may be in
\* DOWNLOAD_DIR when remux_or_encode is entered
OtherFiles == {FileName(0, "mp4"), FileName(1, "mp4"), FileName(0, "webm")}

\* attempt_download (app.py:745) or another caller enters remux_or_encode
\* with the downloaded file on disk
InitRemux ==
    /\ BROWSER_COOKIE3_AVAILABLE = FALSE /\ files = {}
    /\ ExtractIdle /\ TaskIdle /\ CompatIdle /\ RouteIdle /\ LogIdle
    /\ r_pc = "start"
    /\ src_ext \in {"mp4", "MP4", "webm", "mkv"}
    /\ desired_ext \in {"mp4", "webm", "m4a"}
    /\ reencode_on_fail \in BOOLEAN
    /\ src_codecs \in SourceCodecs
    /\ dir \in {{SrcPath} \cup o : o \in SUBSET OtherFiles}
    /\ r_codecs = NoProbe
    /\ outname = NoFile /\ enc_out = NoFile /\ ret = NoFile
    /\ ffmpeg = <<>> /\ r_return = None /\ unlink_refused = FALSE

NextRemux ==
    \/ R_CheckExisting
    \/ R_Version
    \/ R_Remux
    \/ R_NoReencode
    \/ R_Transcode

SpecRemux == InitRemux /\ [][NextRemux]_vars

(***************************************************************************)
(* Properties of the task record (specification Spec)                      *)
(***************************************************************************)

\* The status changes the state machine of the task allows
AllowedTransitions ==
    {<<"queued", "running">>, <<"running", "processing">>,
     <<"processing", "done">>, <<"processing", "error">>,
     <<"queued", "error">>, <<"running", "error">>}

\* The step in which the monitor writes status=error and
\* error="stalled_download_timeout"
MonitorWrites == m_pc = "write" /\ m_pc' = "exit"

\* A step of the worker thread (the progress hook runs on it)
WorkerStep == w_pc' # w_pc

\* The last_progress_time the record holds, created when it holds none
RecordLast ==
    IF last_progress_time # NoTime THEN last_progress_time ELSE created

\* C1: the status changes only along queued->running->processing->{done,error}
\* or from queued/running/processing to error; once it is done or error no
\* write changes it.
C1_StatusTransitions ==
    [][status' # status => <<status, status'>> \in AllowedTransitions]_vars

\* C2: the monitor never writes status=error/"stalled_download_timeout" to a
\* record that already holds a terminal status.
C2_MonitorNeverAfterTerminal ==
    [][MonitorWrites => status \notin Terminal]_vars

\* C3: once the status is done or error, no field of the record other than
\* messages is written again.
C3_TerminalRecordFrozen ==
    [][(status \in Terminal) => (rvars' = rvars)]_vars

\* C10: the monitor writes its timeout only when, at the write, the time since
\* the record's last_progress_time exceeds the threshold of the record's
\* current phase (180 s queued/running, 900 s processing): test and write are
\* one atomic step with respect to the worker's updates.
C10_MonitorWriteIsStalled ==
    [][MonitorWrites =>
          /\ status \in {"queued", "running", "processing"}
          /\ now - RecordLast > (IF status = "processing" THEN 900 ELSE 180)]_vars

\* The position of a rung in the ladder
RungIndex(k) == CHOOSE i \in 1..Len(Rungs) : Rungs[i] = k

\* The rungs tried so far
RungsTried == {downloads[i].rung : i \in 1..Len(downloads)}

C9_DoneWrite ==
    [][/\ (status' = "done" /\ status # "done") =>
            /\ final_path \in ResolverFiles
            /\ progress' = 100
            /\ filename' = final_path
            /\ info' # None
       /\ final_path' # None => downloads' = downloads
       /\ final_path' # final_path => status # "done" /\ filename = None]_vars

\* C9 witness: a task that ended done with the resolver's file
C9_Witness ==
    /\ w_pc = "exit"
    /\ status = "done" /\ progress = 100
    /\ filename = "transcoded" /\ info # None
    /\ Len(downloads) = 2

(***************************************************************************)
(* Properties of the extraction chain (specification SpecExtract)          *)
(***************************************************************************)

Returned == x_pc = "returned"

LastAttempt == attempts[Len(attempts)]

\* C4: the audit trail returned has length >= 1, and its last entry's ok flag
\* is true exactly when the result carries info and false exactly when it
\* carries an error.
C4_AuditTrail ==
    Returned =>
        /\ Len(attempts) >= 1
        /\ LastAttempt.r.ok <=> "info" \in result.keys
        /\ ~LastAttempt.r.ok <=> "error" \in result.keys

\* C4 witness: a return with an error after five attempts
C4_Witness ==
    /\ Returned
    /\ "error" \in result.keys
    /\ Len(attempts) = 5

\* The position of a strategy in the order of the chain
StrategyIndex(n) == CHOOSE i \in 1..Len(Strategies) : Strategies[i] = n

\* The credential file each strategy is tried with
StrategyCookiefile(n) ==
    CASE n = "no_cookies"         -> None
      [] n = "user_cookiefile"    -> cookiefile
      [] n = "env_cookiefile"     -> make_cookiefile_from_env(env)
      [] n = "browser_cookiefile" -> "browser_tmp"
      [] OTHER                    -> created_env_cookie

\* C5: the strategies are tried strictly in the order no_cookies,
\* user_cookiefile, env_cookiefile, browser_cookiefile, allow_unplayable; none
\* is tried after the first success; the audit trail holds exactly one entry
\* per attempt made, in the order made, each strategy at most once.
C5_ChainOrder ==
    /\ Len(attempts) = Len(calls)
    /\ \A i \in 1..Len(attempts) :
          /\ attempts[i].name \in {Strategies[k] : k \in 1..Len(Strategies)}
          /\ calls[i].allow_unplayable <=> attempts[i].name = "allow_unplayable"
          /\ attempts[i].name # "allow_unplayable" =>
                calls[i].cookiefile = StrategyCookiefile(attempts[i].name)
          /\ i < Len(attempts) => ~attempts[i].r.ok
          /\ \A j \in 1..Len(attempts) :
                i < j => StrategyIndex(attempts[i].name)
                            < StrategyIndex(attempts[j].name)
    /\ Len(attempts) >= 1 => attempts[1].name = "no_cookies"
    /\ (Returned /\ "error" \in result.keys) =>
          LET names == {attempts[i].name : i \in 1..Len(attempts)} IN
          /\ {"no_cookies", "allow_unplayable"} \subseteq names
          /\ "user_cookiefile" \in names <=> cookiefile # None
          /\ "env_cookiefile" \in names <=> make_cookiefile_from_env(env) # None
          /\ "browser_cookiefile" \in names =>
                try_browser_cookies /\ BROWSER_COOKIE3_AVAILABLE

\* C5 witness: the fourth strategy succeeded after three failures
C5_Witness ==
    /\ Returned
    /\ Len(attempts) = 4
    /\ attempts[4].name = "browser_cookiefile" /\ attempts[4].r.ok

\* C6: when every strategy failed, the returned error is the error of the
\* allow_unplayable attempt if it has one, otherwise the error of the
\* no_cookies attempt; never the error of an attempt in between.
C6_ReturnedError ==
    (Returned /\ "error" \in result.keys) =>
        /\ LastAttempt.name = "allow_unplayable"
        /\ attempts[1].name = "no_cookies"
        /\ result.error = IF LastAttempt.r.error # ""
                          THEN LastAttempt.r.error
                          ELSE attempts[1].r.error

\* C6 witness: the relaxed attempt failed with an empty message and the
\* attempts in between with another message than the first
C6_Witness ==
    /\ Returned /\ "error" \in result.keys
    /\ Len(attempts) = 5
    /\ LastAttempt.r.error = ""
    /\ attempts[1].r.error = "e1"
    /\ \A i \in 2..4 : attempts[i].r.error = "e2"
    /\ result.error = "e1"

\* C7: on every return path of yt_extract_info no temporary credential file
\* the chain created (from the environment, from the browser) still exists.
C7_NoTempFileLeft ==
    Returned => files \cap TempFiles = {}

\* The best credential file the caller of the chain has: the file it passed,
\* else the file the environment gives
BestCredential ==
    IF cookiefile # None THEN cookiefile ELSE make_cookiefile_from_env(env)

\* C20: the relaxed-mode (allow_unplayable) attempt is made with the best
\* available credential file: the caller's file when one was passed,
\* otherwise the environment-derived file, and none only when neither exists.
C20_RelaxedCredential ==
    \A i \in 1..Len(calls) :
        calls[i].allow_unplayable => calls[i].cookiefile = BestCredential

\* The names in the audit trail
AttemptNames == {attempts[i].name : i \in 1..Len(attempts)}

\* The export of the browser's cookies failed or raised: its temporary file
\* is left on disk (app.py:496-503)
BrowserExportFailed == "browser_tmp" \in files

\* C21: the browser strategy is attempted only if the caller opted in and
\* browser support is available; when the export of the browser's cookies
\* fails or raises, the chain records no entry for the strategy, returns no
\* error because of it, and goes on with the relaxed-mode attempt.
C21_BrowserStrategy ==
    /\ "browser_cookiefile" \in AttemptNames =>
          (try_browser_cookies /\ BROWSER_COOKIE3_AVAILABLE)
    /\ BrowserExportFailed =>
          /\ try_browser_cookies /\ BROWSER_COOKIE3_AVAILABLE
          /\ "browser_cookiefile" \notin AttemptNames
          /\ \A i \in 1..Len(calls) : calls[i].cookiefile # "browser_tmp"
          /\ x_pc \in {"allow_unplayable", "returned"}
          /\ x_pc = "returned" =>
                /\ attempts[Len(attempts)].name = "allow_unplayable"
                /\ result.error = IF attempts[Len(attempts)].r.ok THEN None
                                  ELSE ReturnedError(attempts[Len(attempts)].r,
                                                     attempts[1].r)

\* The export failed and the relaxed attempt has then succeeded
C21_Witness ==
    /\ BrowserExportFailed
    /\ x_pc = "returned"
    /\ attempts[Len(attempts)].name = "allow_unplayable"
    /\ "info" \in result.keys

(***************************************************************************)
(* Properties of is_quicktime_compatible (specification SpecCompat)        *)
(***************************************************************************)

\* The two codec families the compatibility rule names
AacMp3Family == {s_aac, s_AAC, s_aac_latm, s_mp4a, s_mp3}

H264Family == {s_h264, s_H264, s_avc1}

Absent == {NoneStr, s_empty}

\* C14: is_quicktime_compatible returns true exactly when the video codec is
\* absent and the audio codec is in the AAC/MP3 family, or the video codec
\* is in the H.264/AVC family and the audio codec is absent or in the
\* AAC/MP3 family; it returns false for every other pair and for no probe
\* result.  The result depends on the pair alone: the operator reads
\* nothing else.
C14_CompatTable ==
    c_pc = "returned" =>
        compatible =
            ( /\ codecs.probe
              /\ \/ codecs.video \in Absent /\ codecs.audio \in AacMp3Family
                 \/ /\ codecs.video \in H264Family
                    /\ codecs.audio \in Absent \cup AacMp3Family )

\* H.264 video with an audio codec outside the family has been judged
C14_Witness ==
    /\ c_pc = "returned" /\ codecs.probe
    /\ codecs.video = s_h264 /\ codecs.audio = s_opus
    /\ ~compatible

(***************************************************************************)
(* Properties of choose_best_container (specification SpecContainer)       *)
(***************************************************************************)

\* The video is absent: no name, the empty name, or "none"
NoVideo == {NoneStr, s_empty, s_none}

\* An audio codec is named (any non-empty name)
AudioNamed(a) == a \notin {NoneStr, s_empty}

OpusNames == {s_opus, s_OPUS}

AvcNames == {s_h264, s_H264, s_avc1, s_h_264}

StreamingVideoNames == {s_vp8, s_vp9, s_VP9, s_av1}

\* The container the table of C23 gives for a pair
TableContainer(v, a) ==
    IF v \in NoVideo /\ AudioNamed(a)
    THEN CASE a \in OpusNames -> "webm"
           [] a = s_flac -> "flac"
           [] a = s_mp3 -> "mp3"
           [] OTHER -> "m4a"
    ELSE IF v \in AvcNames THEN (IF a \in OpusNames THEN "webm" ELSE "mp4")
    ELSE IF v \in StreamingVideoNames THEN "webm"
    ELSE "mp4"

C11_AlreadyCompatible ==
    [][(/\ r_pc = "start" /\ r_pc' # "start"
        /\ ExtLower(src_ext) = desired_ext
        /\ r_codecs'.probe /\ is_quicktime_compatible(r_codecs'))
       => (/\ r_pc' = "returned"
           /\ ret' = SrcPath
           /\ ffmpeg' = <<>>
           /\ dir' = dir)]_vars

\* An .mp4 source with h264 + aac has been returned as it is
C11_Witness ==
    /\ r_pc = "returned" /\ r_return = "already_compatible"
    /\ src_ext = "mp4" /\ desired_ext = "mp4"
    /\ r_codecs = ProbeResult(s_h264, s_aac)
    /\ ret = SrcPath /\ ffmpeg = <<>>

\* The files of this call: the source, the remux output, the transcode output
CallFiles == {SrcPath, outname, enc_out} \ {NoFile}

\* The call has produced a compatible output
ProducedCompatible == r_pc = "returned" /\ r_return \in {"remuxed", "transcoded"}

TranscodeOk ==
    /\ Len(ffmpeg) = 3
    /\ ffmpeg[3].rc = 0 /\ enc_out \in dir

RemuxNotCompatible == Len(ffmpeg) >= 2 /\ r_return # "remuxed"

\* The transcode step: when it is due it is run, into a free .mp4 name that
\* no existing file has, and when it succeeds its output is returned
TranscodeRun ==
    /\ (r_pc = "fallback" /\ reencode_on_fail) => ENABLED R_Transcode
    /\ (r_pc = "returned" /\ RemuxNotCompatible /\ reencode_on_fail) =>
          /\ Len(ffmpeg) = 3
          /\ ffmpeg[3].cmd = "transcode"
          /\ ffmpeg[3].output = enc_out
          /\ enc_out.ext = "mp4"
          /\ enc_out # SrcPath
          /\ (ffmpeg[2].written => enc_out # outname)
          /\ (ffmpeg[3].rc = 0 /\ ffmpeg[3].written) <=> r_return = "transcoded"
    /\ r_return = "transcoded" => (ret = enc_out /\ ret \in dir)

\* The name a transcode writes to is the name of no file that exists when
\* the transcode starts
FreshTranscodeName ==
    (r_pc = "fallback" /\ r_pc' = "returned" /\ reencode_on_fail) =>
        (enc_out' \notin dir /\ enc_out'.ext = "mp4")

ChainFailed == d_pc = "started" /\ "error" \in result.keys

\* C15: for a download request whose extraction chain fails on every
\* strategy, relaxed mode included, the created task ends with status=error
\* and its error field is the error message the chain returned, that of the
\* relaxed-mode attempt.
C15_ChainFailureEndsTask ==
    (ChainFailed /\ w_pc = "exit") =>
        (status = "error" /\ error = result.error)

\* The request names an explicit format id, the metadata was extracted, and
\* no listed format has that id
NoMatchingFormat ==
    /\ d_pc = "started"
    /\ "info" \in result.keys
    /\ requested # None /\ ~IsAudioRequest(requested)
    /\ \A i \in 1..Len(formats) : formats[i].format_id # requested

\* C16: when the requested explicit format id matches no entry of the
\* extracted formats, the resolved override is none, the worker makes no
\* attempt (a), and it goes through the browser attempt (only if opted in
\* and available), the default merge, then "best", in this order.
C16_NoMatchNoOverride ==
    NoMatchingFormat =>
        /\ fmt_str = None /\ audio_convert = None
        /\ \A i \in 1..Len(downloads) :
              /\ downloads[i].rung \in {"b", "c", "d"}
              /\ downloads[i].format = IF downloads[i].rung = "d" THEN "best" ELSE None
              /\ \A j \in 1..Len(downloads) :
                    i < j => RungIndex(downloads[i].rung) < RungIndex(downloads[j].rung)
        /\ "b" \in RungsTried => (try_browser_flag /\ BROWSER_COOKIE3_AVAILABLE)
        /\ "d" \in RungsTried => "c" \in RungsTried
        /\ (w_pc = "exit" /\ status = "error") => {"c", "d"} \subseteq RungsTried

\* The id 999 is not listed; the worker has tried b, c and d
C16_Witness ==
    /\ NoMatchingFormat
    /\ requested = "999" /\ formats = ListedFormats
    /\ Len(downloads) = 3
    /\ downloads[1].rung = "b" /\ downloads[3].rung = "d"

(***************************************************************************)
(* Properties of the progress and of the readers of the record             *)
(***************************************************************************)

\* C17: before the task is terminal its progress never decreases: every
\* write of the progress by the hook or the worker, across the streams of
\* one transfer and across the attempts, writes a value >= the one it
\* replaces.
C17_ProgressNeverDecreases ==
    [][(status \notin Terminal /\ WorkerStep) => progress' >= progress]_vars

\* C18: no response of task_status shows a half-updated status/progress
\* pair: status processing or done comes with progress 100, and the
\* progress 100 of a "finished" event never comes with the status running.
C18_ConsistentSnapshot ==
    (s_pc = "idle" /\ resp # NoResp) =>
        /\ resp.status \in {"processing", "done"} => resp.progress = 100
        /\ ~(resp.status = "running" /\ resp.progress = 100)

\* A step of task_status that reads the log
ReadsLog == s_pc = "idle" /\ s_pc' = "copy"

\* C19: the log is append-only and ordered: a step that changes it appends
\* one entry and leaves the entries it had in place; task_status does not
\* change it, and its response carries exactly the last min(300, n) entries
\* of the n entries the log had when it was read, in their order.
C19_LogAppendOnly ==
    [][/\ messages' # messages =>
            /\ Len(messages') = Len(messages) + 1
            /\ SubSeq(messages', 1, Len(messages)) = messages
       /\ ReadsLog =>
            /\ messages' = messages
            /\ Len(msgs') = Min(MsgWindow, Len(messages))
            /\ \A i \in 1..Len(msgs') :
                  msgs'[i] = messages[Len(messages) - Len(msgs') + i]
       /\ (s_pc = "copy" /\ s_pc' = "idle") =>
            /\ messages' = messages
            /\ resp'.messages = msgs]_vars

\* A response made from a log of 302 entries: it carries entries 3 to 302
C19_Witness ==
    /\ s_pc = "idle" /\ resp # NoResp
    /\ Len(messages) = MsgWindow + 2
    /\ Len(resp.messages) = MsgWindow
    /\ resp.messages[1].text = 3
    /\ resp.messages[MsgWindow].text = MsgWindow + 2

(***************************************************************************)
(* Properties of the worker's attempts, the hook and the monitor           *)
(***************************************************************************)

\* C24: every failed transfer attempt of the worker, the last one included,
\* is recorded in last_error: when the handler of a failed attempt has run,
\* last_error is the error of that attempt.
C24_LastErrorRecorded ==
    [][(w_pc = "failed" /\ w_pc' # "failed") => last_error' = w_err]_vars

\* The hook takes a "downloading" event: its first write, app.py:701-708
DownloadingEvent == w_pc = "xfer" /\ w_pc' = "hook_speed"

\* p is floor(100 * downloaded / total)
IsFloorPercent(p, d) ==
    /\ p * d.total_bytes <= 100 * d.downloaded_bytes
    /\ 100 * d.downloaded_bytes < (p + 1) * d.total_bytes

\* p is min(floor(downloaded / 1024), 99)
IsPlaceholder(p, d) ==
    /\ p <= 99
    /\ p * 1024 <= d.downloaded_bytes
    /\ p = 99 \/ d.downloaded_bytes < (p + 1) * 1024

\* What the hook writes besides the range of the percentage
HookWrites ==
    /\ DownloadingEvent =>
           /\ hook_d'.total_bytes > 0 => IsFloorPercent(progress', hook_d')
           /\ hook_d'.total_bytes = 0 =>
                  IsPlaceholder(progress', hook_d') /\ progress' < 100
    /\ (w_pc = "hook_time" /\ w_pc' # "hook_time") => last_progress_time' = now
    /\ (w_pc = "hook_fin_status" /\ w_pc' # "hook_fin_status") =>
           status' = "processing"
    /\ (w_pc = "hook_fin_time" /\ w_pc' # "hook_fin_time") =>
           last_progress_time' = now

\* C25: every "downloading" event refreshes last_progress_time and writes
\* floor(100 * downloaded / total) when the total is known and positive,
\* else min(floor(downloaded / 1024), 99); the percentage it writes is
\* within 0..100, and below 100 when the total is unknown; every "finished"
\* event sets the status processing and refreshes last_progress_time.
C25_HookPercentage ==
    [][HookWrites /\ (DownloadingEvent => progress' \in 0..100)]_vars

\* The worker enters attempt_download: a transfer attempt starts, app.py:727-735
AttemptStarts ==
    w_pc \in {"ladder_a", "ladder_b", "ladder_c", "ladder_d"} /\ w_pc' = "xfer"

\* C26: while the status is processing no transfer is in progress: no
\* transfer attempt starts with the status processing (an attempt made after
\* one that reached "finished" and then failed runs with another status),
\* and no "downloading" event is delivered while the status is processing.
C26_ProcessingAfterTransfer ==
    [][/\ AttemptStarts => status' # "processing"
       /\ DownloadingEvent => status # "processing"]_vars

\* The monitor has written its timeout, app.py:839-840
StallRecorded == error = "stalled_download_timeout"

\* C27: a stall is fatal and never retried: once the monitor has written
\* status error with the error "stalled_download_timeout", the worker starts
\* no new transfer attempt and the error field keeps that value.
C27_StallIsFatal ==
    [][StallRecorded => (~AttemptStarts /\ error' = error)]_vars

\* A step of the monitor thread
MonitorStep == m_pc' # m_pc

\* C28: the loop of the monitor terminates: a poll that finds the status
\* done or error stops it without a write; its timeout write stops it at
\* once; it writes to the record in that step only, so at most once; having
\* stopped it stays stopped; and under fair scheduling it does stop.
C28_MonitorTerminates ==
    /\ [][/\ (MonitorStep /\ m_pc = "poll" /\ status \in Terminal) =>
              (m_pc' = "exit" /\ rvars' = rvars)
          /\ (MonitorStep /\ m_pc = "write") => m_pc' = "exit"
          /\ (MonitorStep /\ rvars' # rvars) => m_pc = "write"
          /\ (m_pc = "exit") => m_pc' = "exit"]_vars
    /\ <>(m_pc = "exit")

\* The monitor has stopped on finding the status done, without a write
C28_Witness ==
    /\ m_pc = "exit" /\ status = "done" /\ error = None
    /\ w_pc = "exit"

\* The worker starts its attempt (b), app.py:775-778
BrowserAttemptStarts == w_pc = "ladder_b" /\ w_pc' = "xfer"

\* C29: the attempt (b) of the worker is made with the browser-derived
\* credential file just exported for it, not with the credential file the
\* worker was given, and only after an export: the temporary file of the
\* export exists and is the cookiefile of the transfer call.
C29_BrowserAttemptCredential ==
    [][BrowserAttemptStarts =>
          /\ try_browser_flag /\ BROWSER_COOKIE3_AVAILABLE
          /\ "browser_tmp" \in files'
          /\ downloads'[Len(downloads')].rung = "b"
          /\ downloads'[Len(downloads')].cookiefile = "browser_tmp"]_vars

\* C30: every task eventually reaches a terminal status and stays there:
\* under fair scheduling of the worker and of the monitor, and even if an
\* external call of the worker never returns, the status eventually is done
\* or error and remains done or error from then on.
C30_EventuallyTerminal ==
    <>[](status \in Terminal)

(***************************************************************************)
(* Properties of the files the program deletes and returns                 *)
(***************************************************************************)

\* The credential files the chain did not create: the one its caller passed
\* and the one YTDLP_COOKIES_FILE names
SuppliedFiles ==
    (IF cookiefile # None THEN {cookiefile} ELSE {})
        \cup (IF env \in {"file_netscape", "file_json", "file_unusable"}
              THEN {"env_file"} ELSE {})

\* C31: the chain deletes only credential files it created as temporaries:
\* when yt_extract_info has returned, the credential file its caller
\* supplied and the file the configuration names (returned unchanged by
\* make_cookiefile_from_env) still exist, whatever the strategies gave.
C31_SuppliedFilesKept ==
    Returned => SuppliedFiles \subseteq files

\* The ffmpeg invocations of the call that exited with status 0
Succeeded(cmd) ==
    {i \in 1..Len(ffmpeg) : ffmpeg[i].cmd = cmd /\ ffmpeg[i].rc = 0}

\* The output paths of the remux invocations that failed or timed out
FailedRemuxOutputs ==
    {ffmpeg[i].output : i \in {j \in 1..Len(ffmpeg) :
                                  ffmpeg[j].cmd = "remux" /\ ffmpeg[j].rc # 0}}

\* C32: remux_or_encode never uses or returns the output of a failed
\* encoder invocation: the file a failed or timed-out remux left is not the
\* input of the transcode, and the returned path names a file that exists
\* and is the source, the output of a remux that exited 0 or the output of
\* a transcode that exited 0.
C32_NoFailedOutputUsed ==
    /\ \A i \in 1..Len(ffmpeg) :
          (ffmpeg[i].cmd = "transcode") => ffmpeg[i].input \notin FailedRemuxOutputs
    /\ (r_pc = "returned") =>
          /\ ret \in dir
          /\ \/ ret = SrcPath
             \/ \E i \in Succeeded("remux") : ret = ffmpeg[i].output
             \/ \E i \in Succeeded("transcode") : ret = ffmpeg[i].output

====
